---- MODULE Spec2Model ----
(***************************************************************************)
(* Model of src-tauri/src/lib.rs: the startup supervisor of the desktop    *)
(* shell.  The setup closure of run() locates the bundled server           *)
(* directory, locates a Node.js binary, spawns the server and stores the   *)
(* child handle in ServerState.server_process (a Mutex<Option<Child>>).    *)
(* kill_server is the terminate operation on that slot.                    *)
(*                                                                         *)
(* Paths and strings are sequences of tokens: "/" is the separator, " "    *)
(* and "\n" are whitespace, "0xFF" is a byte that is not valid UTF-8, any  *)
(* other token is a file name.  Option<T> is a sequence of length 0 or 1.  *)
(***************************************************************************)
EXTENDS Integers, Sequences, FiniteSets, TLC

\* ------------------------------------------------------------------ bounds
\* number of kill_server calls the teardown thread may make
MaxKills == 2
\* process identifiers the OS may hand out are 1..MaxPid
MaxPid == 2

\* ----------------------------------------------------------------- Option
None == <<>>
Some(x) == <<x>>
IsSome(o) == Len(o) = 1
IsNone(o) == Len(o) = 0

\* ------------------------------------------------------------- log records
Info(m) == [level |-> "info", msg |-> m]
Error(m) == [level |-> "error", msg |-> m]

\* ------------------------------------------------------------------- paths
\* Path::join with a relative single-name argument
Join(p, name) ==
  IF p = <<>> THEN <<name>>
  ELSE IF p[Len(p)] = "/" THEN Append(p, name)
  ELSE p \o <<"/", name>>

\* Path::parent: None for the root and for the empty path, otherwise the
\* path without its last component
Parent(p) ==
  IF p = <<>> \/ p = <<"/">> THEN None
  ELSE IF Len(p) = 1 THEN Some(<<>>)
  ELSE IF Len(p) = 2 THEN Some(<<"/">>)
  ELSE Some(SubSeq(p, 1, Len(p) - 2))

\* the well-known Node.js locations
UsrLocalNode == <<"/", "usr", "/", "local", "/", "bin", "/", "node">>
OptHomebrewNode == <<"/", "opt", "/", "homebrew", "/", "bin", "/", "node">>
UsrBinNode == <<"/", "usr", "/", "bin", "/", "node">>

\* ------------------------------------------------------------ environment
\* answers the host may give for app.path().resource_dir()
BundleResources == <<"/", "App", "/", "Contents", "/", "Resources">>
LibResources == <<"/", "usr", "/", "lib", "/", "app">>
ResourceDirAnswers == {None, Some(BundleResources), Some(LibResources)}

\* answers the OS may give for std::env::current_exe()
BundleExe == <<"/", "App", "/", "Contents", "/", "MacOS", "/", "app">>
RootExe == <<"/", "app">>
CurrentExeAnswers == {None, Some(BundleExe), Some(RootExe)}

\* a node installed outside the well-known locations
NvmNode == <<"/", "home", "/", "u", "/", "node">>

BundleServer == Join(BundleResources, "server")
LibServer == Join(LibResources, "server")
ServerDirs == {BundleServer, LibServer}
NodePaths == {UsrLocalNode, OptHomebrewNode, UsrBinNode, NvmNode}
FsUniverse == ServerDirs \cup {Join(d, "server.js") : d \in ServerDirs} \cup NodePaths

\* a filesystem maps each path of the universe to what is there; an entry
\* below a path exists only when that path is a directory
Kinds == {"none", "file", "dir"}
FsStates ==
  {f \in [FsUniverse -> Kinds] :
     /\ \A n \in NodePaths : f[n] # "dir"
     /\ \A d \in ServerDirs :
          /\ f[Join(d, "server.js")] # "dir"
          /\ f[Join(d, "server.js")] # "none" => f[d] = "dir"}

\* Path::exists: true for a file and for a directory alike
Exists(f, p) == p \in DOMAIN f /\ f[p] # "none"

\* environments of the host process
ParentEnvs ==
  {[PATH |-> "/usr/bin"],
   [PATH |-> "/usr/bin", PORT |-> "8080", HOSTNAME |-> "box"]}

\* what `which node` may do: it cannot be run, or it exits with a status
\* and some bytes on stdout
WhichStdouts ==
  {<<>>, NvmNode \o <<"\n">>, <<" ">> \o NvmNode, <<"/", "0xFF", "\n">>}
WhichOutcomes ==
  {[ok |-> FALSE]} \cup
  {[ok |-> TRUE, success |-> s, stdout |-> o] : s \in BOOLEAN, o \in WhichStdouts}

Pids == 1..MaxPid

\* ---------------------------------------------------------------- strings
IsSpace(t) == t \in {" ", "\n"}

RECURSIVE TrimStart(_)
TrimStart(s) ==
  IF s # <<>> /\ IsSpace(Head(s)) THEN TrimStart(Tail(s)) ELSE s

RECURSIVE TrimEnd(_)
TrimEnd(s) ==
  IF s # <<>> /\ IsSpace(s[Len(s)]) THEN TrimEnd(SubSeq(s, 1, Len(s) - 1)) ELSE s

\* str::trim
Trim(s) == TrimEnd(TrimStart(s))

\* String::from_utf8_lossy: an invalid byte becomes U+FFFD
Utf8Lossy(s) == [i \in 1..Len(s) |-> IF s[i] = "0xFF" THEN "U+FFFD" ELSE s[i]]

\* ------------------------------------------------------- find_server_dir
\* The locators are computed as [result, calls, logs]: the value returned,
\* the host and OS queries made in order, and the log entries written.

\* lines 12-18: the resource_dir candidate
TryResourceDir(f, rd) ==
  IF IsSome(rd)
  THEN LET server_dir == Join(rd[1], "server")
       IN IF Exists(f, server_dir)
          THEN [result |-> Some(server_dir),
                calls |-> << <<"resource_dir">>, <<"exists", server_dir>> >>,
                logs |-> <<Info("Found server in resource_dir")>>]
          ELSE [result |-> None,
                calls |-> << <<"resource_dir">>, <<"exists", server_dir>> >>,
                logs |-> <<>>]
  ELSE [result |-> None, calls |-> << <<"resource_dir">> >>, logs |-> <<>>]

ResourcesDirSibling(app_dir) == Some(Join(app_dir, "Resources"))

\* line 24: Contents/MacOS -> Contents/Resources
ResourcesDir(app_dir) ==
  IF IsSome(Parent(app_dir)) THEN Some(Join(Parent(app_dir)[1], "Resources")) ELSE None

\* lines 21-33: the candidate relative to the executable
TryExePath(f, exe) ==
  IF IsSome(exe) /\ IsSome(Parent(exe[1])) /\ IsSome(ResourcesDir(Parent(exe[1])[1]))
  THEN LET server_dir == Join(ResourcesDir(Parent(exe[1])[1])[1], "server")
       IN IF Exists(f, server_dir)
          THEN [result |-> Some(server_dir),
                calls |-> << <<"current_exe">>, <<"exists", server_dir>> >>,
                logs |-> <<Info("Found server via exe path")>>]
          ELSE [result |-> None,
                calls |-> << <<"current_exe">>, <<"exists", server_dir>> >>,
                logs |-> <<>>]
  ELSE [result |-> None, calls |-> << <<"current_exe">> >>, logs |-> <<>>]

\* a locator that evaluates both candidates before deciding
FindServerDirEager(f, rd, exe) ==
  LET a == TryResourceDir(f, rd)
      b == TryExePath(f, exe)
  IN IF IsSome(a.result)
     THEN [result |-> a.result, calls |-> a.calls \o b.calls, logs |-> a.logs]
     ELSE IF IsSome(b.result)
     THEN [result |-> b.result, calls |-> a.calls \o b.calls, logs |-> b.logs]
     ELSE [result |-> None, calls |-> a.calls \o b.calls,
           logs |-> <<Error("Could not find server directory")>>]

\* lines 10-37
find_server_dir(f, rd, exe) ==
  LET a == TryResourceDir(f, rd)
  IN IF IsSome(a.result) THEN a
     ELSE LET b == TryExePath(f, exe)
          IN IF IsSome(b.result)
             THEN [result |-> b.result, calls |-> a.calls \o b.calls, logs |-> b.logs]
             ELSE [result |-> None, calls |-> a.calls \o b.calls,
                   logs |-> <<Error("Could not find server directory")>>]

\* ------------------------------------------------------ find_node_binary
possible_paths_reversed == <<UsrBinNode, OptHomebrewNode, UsrLocalNode>>

\* lines 41-45: the well-known locations in probe order
possible_paths == <<UsrLocalNode, OptHomebrewNode, UsrBinNode>>

\* lines 47-53: probe paths[i..]; stop at the first that exists
RECURSIVE ProbeFrom(_, _, _)
ProbeFrom(f, paths, i) ==
  IF i > Len(paths) THEN [result |-> None, calls |-> <<>>, logs |-> <<>>]
  ELSE IF Exists(f, paths[i])
  THEN [result |-> Some(paths[i]), calls |-> << <<"exists", paths[i]>> >>,
        logs |-> <<Info("Found Node.js at")>>]
  ELSE LET r == ProbeFrom(f, paths, i + 1)
       IN [result |-> r.result, calls |-> << <<"exists", paths[i]>> >> \o r.calls,
           logs |-> r.logs]

WhichAcceptedAnyStatus(w) == w.ok

\* lines 56-57: the command ran and exited successfully
WhichAccepted(w) == w.ok /\ w.success

\* lines 56-65: resolve node through PATH
TryWhich(f, w) ==
  IF WhichAccepted(w)
  THEN LET path == Trim(Utf8Lossy(w.stdout))
       IN IF Exists(f, path)
          THEN [result |-> Some(path), calls |-> << <<"which">>, <<"exists", path>> >>,
                logs |-> <<Info("Found Node.js via which")>>]
          ELSE [result |-> None, calls |-> << <<"which">>, <<"exists", path>> >>,
                logs |-> <<>>]
  ELSE [result |-> None, calls |-> << <<"which">> >>, logs |-> <<>>]

\* lines 39-69
find_node_binary(f, w) ==
  LET a == ProbeFrom(f, possible_paths, 1)
  IN IF IsSome(a.result) THEN a
     ELSE LET b == TryWhich(f, w)
          IN IF IsSome(b.result)
             THEN [result |-> b.result, calls |-> a.calls \o b.calls, logs |-> b.logs]
             ELSE [result |-> None, calls |-> a.calls \o b.calls,
                   logs |-> <<Error("Could not find Node.js binary")>>]

\* ----------------------------------------------------- start_next_server
ServerJsNeverMissing(f, server_dir) == FALSE

\* lines 72-79: the entry file is not there
ServerJsMissing(f, server_dir) == ~Exists(f, Join(server_dir, "server.js"))

SpawnCommandInherit(node_path, server_dir, penv) ==
  [program |-> node_path,
   args |-> <<Join(server_dir, "server.js")>>,
   cwd |-> server_dir,
   env |-> [n \in DOMAIN penv \cup {"PORT", "HOSTNAME"} |->
              IF n = "PORT" THEN "1234"
              ELSE IF n = "HOSTNAME" THEN "localhost" ELSE penv[n]],
   stdout |-> "inherit",
   stderr |-> "inherit"]

\* lines 84-90: the command handed to spawn(); the child inherits the
\* host's environment with PORT and HOSTNAME set on top
SpawnCommand(node_path, server_dir, penv) ==
  [program |-> node_path,
   args |-> <<Join(server_dir, "server.js")>>,
   cwd |-> server_dir,
   env |-> [n \in DOMAIN penv \cup {"PORT", "HOSTNAME"} |->
              IF n = "PORT" THEN "1234"
              ELSE IF n = "HOSTNAME" THEN "localhost" ELSE penv[n]],
   stdout |-> "piped",
   stderr |-> "piped"]

\* ------------------------------------------------------------------ state
VARIABLES
  debugBuild,   \* cfg(debug_assertions) of the build
  fs,           \* the filesystem
  resourceDir,  \* the host's answer to resource_dir(): Option<path>
  exePath,      \* the OS's answer to current_exe(): Option<path>
  pc,           \* where the main thread is in run()
  dirRes,       \* what find_server_dir returned
  whichRes,     \* what `which node` did, once it was run: Option<outcome>
  nodeRes,      \* what find_node_binary returned
  ret,          \* what start_next_server returned: Option<Child>
  slot,         \* ServerState.server_process: Option<Child>
  holders,      \* the threads holding the Mutex guard of the slot
  procs,        \* the child processes the OS has created
  killSignals,  \* the pids a kill signal was sent to, in order
  calls,        \* the calls and steps of the main thread, in order
  log,          \* the log entries written, in order
  sleepLeft,    \* seconds left of the settle delay
  kpc,          \* where the teardown thread is in kill_server
  kills         \* kill_server calls completed

vars == <<debugBuild, fs, resourceDir, exePath, pc, dirRes, whichRes, nodeRes,
          ret, slot, holders, procs, killSignals, calls, log, sleepLeft, kpc, kills>>

env == <<debugBuild, fs, resourceDir, exePath>>
teardown == <<kpc, kills>>

\* line 140
SettleSecs == 3

\* lines 122-124: the slot is managed empty before setup runs
Init ==
  /\ debugBuild \in BOOLEAN
  /\ fs \in FsStates
  /\ resourceDir \in ResourceDirAnswers
  /\ exePath \in CurrentExeAnswers
  /\ pc = "init"
  /\ dirRes = None
  /\ whichRes = None
  /\ nodeRes = None
  /\ ret = None
  /\ slot = None
  /\ holders = {}
  /\ procs = {}
  /\ killSignals = <<>>
  /\ calls = <<>>
  /\ log = <<>>
  /\ sleepLeft = 0
  /\ kpc = "idle"
  /\ kills = 0

\* ---------------------------------------------------------- setup closure
\* a setup hook without the cfg attributes: every build starts the server
SetupStartAlways ==
  /\ pc = "init"
  /\ log' = log \o <<Info("App setup starting..."),
                      Info("Production mode detected, looking for server...")>>
  /\ pc' = "find_server_dir"
  /\ UNCHANGED <<env, dirRes, whichRes, nodeRes, ret, slot, holders, procs,
                 killSignals, calls, sleepLeft, teardown>>

\* lines 125-131 and 147-152: a debug build returns Ok(()) at once
SetupStart ==
  /\ pc = "init"
  /\ IF debugBuild
     THEN /\ log' = log \o <<Info("App setup starting..."),
                             Info("Debug mode - using external dev server")>>
          /\ pc' = "running"
     ELSE /\ log' = log \o <<Info("App setup starting..."),
                             Info("Production mode detected, looking for server...")>>
          /\ pc' = "find_server_dir"
  /\ UNCHANGED <<env, dirRes, whichRes, nodeRes, ret, slot, holders, procs,
                 killSignals, calls, sleepLeft, teardown>>

\* a locator step that creates the missing directory
FindServerDirCreating ==
  /\ pc = "find_server_dir"
  /\ LET r == find_server_dir(fs, resourceDir, exePath)
     IN /\ dirRes' = r.result
        /\ calls' = (calls \o << <<"find_server_dir">> >>) \o r.calls
        /\ IF IsSome(r.result)
           THEN /\ log' = log \o r.logs
                /\ pc' = "lock"
                /\ fs' = fs
           ELSE /\ log' = (log \o r.logs) \o <<Error("Server directory not found!")>>
                /\ pc' = "running"
                /\ fs' = [fs EXCEPT ![BundleServer] = "dir"]
  /\ UNCHANGED <<debugBuild, resourceDir, exePath, whichRes, nodeRes, ret, slot,
                 holders, procs, killSignals, sleepLeft, teardown>>

\* a caller that leaves the logging of a missing directory to the locator
FindServerDirQuiet ==
  /\ pc = "find_server_dir"
  /\ LET r == find_server_dir(fs, resourceDir, exePath)
     IN /\ dirRes' = r.result
        /\ calls' = (calls \o << <<"find_server_dir">> >>) \o r.calls
        /\ log' = log \o r.logs
        /\ pc' = IF IsSome(r.result) THEN "lock" ELSE "running"
  /\ UNCHANGED <<env, whichRes, nodeRes, ret, slot, holders, procs,
                 killSignals, sleepLeft, teardown>>

\* lines 133 and 142-144: find_server_dir(app) and the branch on its result
FindServerDir ==
  /\ pc = "find_server_dir"
  /\ LET r == find_server_dir(fs, resourceDir, exePath)
     IN /\ dirRes' = r.result
        /\ calls' = (calls \o << <<"find_server_dir">> >>) \o r.calls
        /\ IF IsSome(r.result)
           THEN /\ log' = log \o r.logs
                /\ pc' = "lock"
           ELSE /\ log' = (log \o r.logs) \o <<Error("Server directory not found!")>>
                /\ pc' = "running"
  /\ UNCHANGED <<env, whichRes, nodeRes, ret, slot, holders, procs,
                 killSignals, sleepLeft, teardown>>

\* lines 134-135: state.server_process.lock().unwrap() blocks until the
\* guard is free; the guard lives until the end of the block (line 141)
SetupLock ==
  /\ pc = "lock"
  /\ holders = {}
  /\ holders' = {"setup"}
  /\ pc' = "entry_check"
  /\ UNCHANGED <<env, dirRes, whichRes, nodeRes, ret, slot, procs,
                 killSignals, calls, log, sleepLeft, teardown>>

\* lines 72-79: start_next_server up to the entry-file check
EntryCheck ==
  /\ pc = "entry_check"
  /\ calls' = calls \o << <<"start_next_server">>,
                           <<"exists", Join(dirRes[1], "server.js")>> >>
  /\ IF ServerJsMissing(fs, dirRes[1])
     THEN /\ log' = log \o <<Info("Starting Next.js server from"),
                             Error("server.js not found")>>
          /\ ret' = None
          /\ pc' = "store"
     ELSE /\ log' = Append(log, Info("Starting Next.js server from"))
          /\ ret' = ret
          /\ pc' = "find_node_binary"
  /\ UNCHANGED <<env, dirRes, whichRes, nodeRes, slot, holders, procs,
                 killSignals, sleepLeft, teardown>>

\* lines 81-82: find_node_binary()?
FindNodeBinary ==
  /\ pc = "find_node_binary"
  /\ \E w \in WhichOutcomes :
       LET r == find_node_binary(fs, w)
       IN /\ nodeRes' = r.result
          /\ calls' = (calls \o << <<"find_node_binary">> >>) \o r.calls
          /\ whichRes' = IF <<"which">> \in {r.calls[i] : i \in 1..Len(r.calls)}
                         THEN Some(w) ELSE None
          /\ IF IsSome(r.result)
             THEN /\ log' = (log \o r.logs) \o <<Info("Using Node.js from")>>
                  /\ pc' = "spawn"
             ELSE /\ log' = log \o r.logs
                  /\ pc' = "store"
  /\ ret' = None
  /\ UNCHANGED <<env, dirRes, slot, holders, procs, killSignals, sleepLeft, teardown>>

\* a spawn whose failure is unwrapped: the setup thread panics
SpawnUnwrapping ==
  /\ pc = "spawn"
  /\ \/ \E pid \in Pids, penv \in ParentEnvs :
          /\ procs' = procs \cup
                {[pid |-> pid, status |-> "running",
                  cmd |-> SpawnCommand(nodeRes[1], dirRes[1], penv)]}
          /\ calls' = Append(calls, <<"spawn", pid>>)
          /\ ret' = Some([pid |-> pid])
          /\ log' = Append(log, Info("Next.js server started with PID"))
          /\ pc' = "store"
     \/ /\ procs' = procs
        /\ calls' = Append(calls, <<"spawn", 0>>)
        /\ ret' = None
        /\ log' = log
        /\ pc' = "panicked"
  /\ UNCHANGED <<env, dirRes, whichRes, nodeRes, slot, holders, killSignals,
                 sleepLeft, teardown>>

\* lines 84-99: spawn(); the OS creates the process or rejects the request
Spawn ==
  /\ pc = "spawn"
  /\ \/ \E pid \in Pids, penv \in ParentEnvs :
          /\ procs' = procs \cup
                {[pid |-> pid, status |-> "running",
                  cmd |-> SpawnCommand(nodeRes[1], dirRes[1], penv)]}
          /\ calls' = Append(calls, <<"spawn", pid>>)
          /\ ret' = Some([pid |-> pid])
          /\ log' = Append(log, Info("Next.js server started with PID"))
     \/ /\ procs' = procs
        /\ calls' = Append(calls, <<"spawn", 0>>)
        /\ ret' = None
        /\ log' = Append(log, Error("Failed to start server"))
  /\ pc' = "store"
  /\ UNCHANGED <<env, dirRes, whichRes, nodeRes, slot, holders, killSignals,
                 sleepLeft, teardown>>

\* a setup hook that starts the server once more when nothing came back
StoreRetrying ==
  /\ pc = "store"
  /\ slot' = ret
  /\ log' = Append(log, Info("Waiting for server to start..."))
  /\ calls' = Append(calls, <<"store">>)
  /\ IF IsNone(ret) /\ Len(calls) < 12
     THEN sleepLeft' = sleepLeft /\ pc' = "entry_check"
     ELSE sleepLeft' = SettleSecs /\ pc' = "sleep"
  /\ UNCHANGED <<env, dirRes, whichRes, nodeRes, ret, holders, procs,
                 killSignals, teardown>>

\* a setup hook that drops the returned handle instead of storing it
StoreDropping ==
  /\ pc = "store"
  /\ slot' = slot
  /\ log' = Append(log, Info("Waiting for server to start..."))
  /\ sleepLeft' = SettleSecs
  /\ calls' = Append(calls, <<"store">>)
  /\ pc' = "sleep"
  /\ UNCHANGED <<env, dirRes, whichRes, nodeRes, ret, holders, procs,
                 killSignals, teardown>>

\* lines 136-140: *server = <returned value>, then the thread goes to sleep
Store ==
  /\ pc = "store"
  /\ slot' = ret
  /\ log' = Append(log, Info("Waiting for server to start..."))
  /\ sleepLeft' = SettleSecs
  /\ calls' = Append(calls, <<"store">>)
  /\ pc' = "sleep"
  /\ UNCHANGED <<env, dirRes, whichRes, nodeRes, ret, holders, procs,
                 killSignals, teardown>>

\* line 140: a second of std::thread::sleep passes
SleepTick ==
  /\ pc = "sleep"
  /\ sleepLeft > 0
  /\ sleepLeft' = sleepLeft - 1
  /\ UNCHANGED <<env, pc, dirRes, whichRes, nodeRes, ret, slot, holders, procs,
                 killSignals, calls, log, teardown>>

\* a settle delay that may return before its time is up
WakeEarly ==
  /\ pc = "sleep"
  /\ log' = Append(log, Info("Server should be ready now"))
  /\ calls' = Append(calls, <<"sleep", SettleSecs - sleepLeft>>)
  /\ holders' = holders \ {"setup"}
  /\ pc' = "running"
  /\ UNCHANGED <<env, dirRes, whichRes, nodeRes, ret, slot, procs,
                 killSignals, sleepLeft, teardown>>

\* lines 140-152: sleep() returns after the seconds it was asked for, the
\* guard is dropped, setup returns Ok(())
Wake ==
  /\ pc = "sleep"
  /\ sleepLeft = 0
  /\ log' = Append(log, Info("Server should be ready now"))
  /\ calls' = Append(calls, <<"sleep", SettleSecs - sleepLeft>>)
  /\ holders' = holders \ {"setup"}
  /\ pc' = "running"
  /\ UNCHANGED <<env, dirRes, whichRes, nodeRes, ret, slot, procs,
                 killSignals, sleepLeft, teardown>>

\* lines 154-155: the event loop ends and run() returns; nothing else is
\* done on the way out
AppExit ==
  /\ pc = "running"
  /\ pc' = "exited"
  /\ UNCHANGED <<env, dirRes, whichRes, nodeRes, ret, slot, holders, procs,
                 killSignals, calls, log, sleepLeft, teardown>>

\* the server process ends on its own; nothing in lib.rs waits for it
ChildExit ==
  /\ \E p \in procs :
       /\ p.status = "running"
       /\ procs' = (procs \ {p}) \cup {[p EXCEPT !.status = "exited"]}
  /\ UNCHANGED <<env, pc, dirRes, whichRes, nodeRes, ret, slot, holders,
                 killSignals, calls, log, sleepLeft, teardown>>

\* ---------------------------------------------------------- kill_server
\* a kill_server that reaches the slot without waiting for the guard
KillLockBarging ==
  /\ kpc = "idle"
  /\ kills < MaxKills
  /\ pc # "exited"
  /\ holders' = holders \cup {"teardown"}
  /\ kpc' = "locked"
  /\ UNCHANGED <<env, pc, dirRes, whichRes, nodeRes, ret, slot, procs,
                 killSignals, calls, log, sleepLeft, kills>>

\* line 104: state.server_process.lock(); the guard is never poisoned
\* because no thread panics while holding it
KillLock ==
  /\ kpc = "idle"
  /\ kills < MaxKills
  /\ pc # "exited"
  /\ holders = {}
  /\ holders' = {"teardown"}
  /\ kpc' = "locked"
  /\ UNCHANGED <<env, pc, dirRes, whichRes, nodeRes, ret, slot, procs,
                 killSignals, calls, log, sleepLeft, kills>>

KillSignalsTwice(s, sigs) ==
  IF IsSome(s) THEN Append(Append(sigs, s[1].pid), s[1].pid) ELSE sigs

\* lines 105-108: child.kill() when the slot holds a child; the result of
\* kill() is discarded
KillSignalsAfter(s, sigs) ==
  IF IsSome(s) THEN Append(sigs, s[1].pid) ELSE sigs

\* SIGKILL ends a running process; a process that has already ended and
\* was not waited for stays as it is
Signalled(ps, pid) ==
  {IF p.pid = pid /\ p.status = "running" THEN [p EXCEPT !.status = "killed"] ELSE p :
     p \in ps}

\* a kill_server that takes the child out of the slot
KillServerTaking ==
  /\ kpc = "locked"
  /\ killSignals' = KillSignalsAfter(slot, killSignals)
  /\ IF IsSome(slot)
     THEN /\ log' = Append(log, Info("Killing Next.js server with PID"))
          /\ procs' = Signalled(procs, slot[1].pid)
     ELSE /\ log' = log
          /\ procs' = procs
  /\ slot' = None
  /\ holders' = holders \ {"teardown"}
  /\ kpc' = "idle"
  /\ kills' = kills + 1
  /\ UNCHANGED <<env, pc, dirRes, whichRes, nodeRes, ret, calls, sleepLeft>>

\* lines 105-110: the body under the guard, then the guard is dropped
KillServer ==
  /\ kpc = "locked"
  /\ killSignals' = KillSignalsAfter(slot, killSignals)
  /\ IF IsSome(slot)
     THEN /\ log' = Append(log, Info("Killing Next.js server with PID"))
          /\ procs' = Signalled(procs, slot[1].pid)
     ELSE /\ log' = log
          /\ procs' = procs
  /\ holders' = holders \ {"teardown"}
  /\ kpc' = "idle"
  /\ kills' = kills + 1
  /\ UNCHANGED <<env, pc, dirRes, whichRes, nodeRes, ret, slot, calls, sleepLeft>>

Next ==
  \/ SetupStart
  \/ FindServerDir
  \/ SetupLock
  \/ EntryCheck
  \/ FindNodeBinary
  \/ Spawn
  \/ Store
  \/ SleepTick
  \/ Wake
  \/ AppExit
  \/ ChildExit

\* the program as built: nothing calls kill_server
Spec == Init /\ [][Next]_vars

\* the steps of the main thread inside the setup closure
SetupThread ==
  \/ SetupStart
  \/ FindServerDir
  \/ SetupLock
  \/ EntryCheck
  \/ FindNodeBinary
  \/ Spawn
  \/ Store
  \/ SleepTick
  \/ Wake

\* the program as built, with a main thread that keeps running: no step of
\* the setup closure waits for anything but the free guard and the clock
FairSpec == Init /\ [][Next]_vars /\ WF_vars(SetupThread)

\* the program with a teardown thread of the host calling kill_server
NextTeardown ==
  \/ Next
  \/ KillLock
  \/ KillServer

SpecTeardown == Init /\ [][NextTeardown]_vars

\* ------------------------------------------------------------ properties
Called(c) == \E i \in 1..Len(calls) : calls[i] = c
Probed(p) == Called(<<"exists", p>>)
Spawned == \E i \in 1..Len(calls) : calls[i][1] = "spawn"
Signalled_(pid) == \E i \in 1..Len(killSignals) : killSignals[i] = pid

\* find_server_dir has returned in this run
DirLocated == ~debugBuild /\ pc \notin {"init", "find_server_dir"}
\* start_next_server has returned in this run
StartReturned == IsSome(dirRes) /\ pc \in {"store", "sleep", "running", "exited"}

\* C1: once the server was spawned and its handle stored, a host that has
\* shut down has sent a kill signal to the spawned process.
C1_ShutdownKillsServer ==
  (pc = "exited" /\ IsSome(slot)) => Signalled_(slot[1].pid)

\* C2: when the bundle directory holds no server.js, start_next_server
\* returns None, find_node_binary is not invoked (no well-known path is
\* probed, `which` is not run) and no process is spawned.
C2_MissingEntrySkipsLocator ==
  (StartReturned /\ fs[dirRes[1] \o <<"/", "server.js">>] = "none") =>
     /\ ret = None
     /\ ~Called(<<"find_node_binary">>)
     /\ \A n \in {UsrLocalNode, OptHomebrewNode, UsrBinNode} : ~Probed(n)
     /\ ~Called(<<"which">>)
     /\ ~Spawned
     /\ procs = {}

C2_Witness ==
  /\ pc = "store"
  /\ IsSome(dirRes)
  /\ fs[dirRes[1]] = "dir"
  /\ fs[dirRes[1] \o <<"/", "server.js">>] = "none"
  /\ fs[UsrLocalNode] = "file"
  /\ ret = None

\* C3: every spawned child runs the located runtime R with the single
\* argument D/server.js in working directory D, with PORT=1234 and
\* HOSTNAME=localhost in its environment and stdout and stderr piped, and
\* the value returned is the handle of that process.
C3_SpawnContract ==
  \A p \in procs :
     /\ IsSome(nodeRes) /\ IsSome(dirRes)
     /\ p.cmd.program = nodeRes[1]
     /\ p.cmd.args = << dirRes[1] \o <<"/", "server.js">> >>
     /\ p.cmd.cwd = dirRes[1]
     /\ p.cmd.env["PORT"] = "1234"
     /\ p.cmd.env["HOSTNAME"] = "localhost"
     /\ p.cmd.stdout = "piped"
     /\ p.cmd.stderr = "piped"
     /\ ret = Some([pid |-> p.pid])
     /\ p.pid # 0

C3_Witness ==
  /\ pc = "store"
  /\ dirRes = Some(BundleServer)
  /\ nodeRes = Some(UsrLocalNode)
  /\ \E p \in procs : "PATH" \in DOMAIN p.cmd.env /\ ret = Some([pid |-> p.pid])

\* C4: when a well-known runtime path exists, find_node_binary returns the
\* first existing one in the order /usr/local/bin/node,
\* /opt/homebrew/bin/node, /usr/bin/node, and `which` is not run.
C4_FirstWellKnownPath ==
  (Called(<<"find_node_binary">>)
     /\ (fs[UsrLocalNode] # "none" \/ fs[OptHomebrewNode] # "none" \/ fs[UsrBinNode] # "none")) =>
     /\ nodeRes = Some(IF fs[UsrLocalNode] # "none" THEN UsrLocalNode
                       ELSE IF fs[OptHomebrewNode] # "none" THEN OptHomebrewNode
                       ELSE UsrBinNode)
     /\ ~Called(<<"which">>)
     /\ whichRes = None

C4_Witness ==
  /\ Called(<<"find_node_binary">>)
  /\ fs[UsrLocalNode] = "none"
  /\ fs[OptHomebrewNode] = "file"
  /\ fs[UsrBinNode] = "file"
  /\ nodeRes = Some(OptHomebrewNode)

\* C5: when no well-known runtime path exists, find_node_binary returns the
\* path `which` resolved exactly when `which` ran, exited successfully and
\* the resolved path exists; otherwise it returns None.
C5_WhichFallback ==
  (Called(<<"find_node_binary">>)
     /\ fs[UsrLocalNode] = "none" /\ fs[OptHomebrewNode] = "none" /\ fs[UsrBinNode] = "none") =>
     /\ IsSome(whichRes)
     /\ Called(<<"which">>)
     /\ LET w == whichRes[1]
        IN IF w.ok /\ w.success /\ Exists(fs, Trim(Utf8Lossy(w.stdout)))
           THEN nodeRes = Some(Trim(Utf8Lossy(w.stdout)))
           ELSE nodeRes = None

C5_Witness ==
  /\ Called(<<"find_node_binary">>)
  /\ IsSome(whichRes)
  /\ whichRes[1].ok
  /\ whichRes[1].stdout = NvmNode \o <<"\n">>
  /\ nodeRes = Some(NvmNode)

\* C6: when the host reports a resource directory and <resource_dir>/server
\* exists, find_server_dir returns exactly that path, and neither queries
\* the current executable nor probes any other candidate.
C6_ResourceDirFirst ==
  (DirLocated /\ IsSome(resourceDir)
     /\ fs[resourceDir[1] \o <<"/", "server">>] # "none") =>
     /\ dirRes = Some(resourceDir[1] \o <<"/", "server">>)
     /\ ~Called(<<"current_exe">>)
     /\ SubSeq(calls, 1, 3) = << <<"find_server_dir">>, <<"resource_dir">>,
                                 <<"exists", resourceDir[1] \o <<"/", "server">> >> >>
     /\ Len(calls) > 3 => calls[4] = <<"start_next_server">>

C6_Witness ==
  /\ DirLocated
  /\ resourceDir = Some(LibResources)
  /\ exePath = Some(BundleExe)
  /\ fs[BundleServer] = "dir"
  /\ dirRes = Some(LibServer)

\* the candidate <parent of the executable's directory>/Resources/server
ExeCandidate ==
  IF IsSome(exePath) /\ IsSome(Parent(exePath[1]))
       /\ IsSome(Parent(Parent(exePath[1])[1]))
  THEN Some(Parent(Parent(exePath[1])[1])[1] \o <<"/", "Resources", "/", "server">>)
  ELSE None

\* C7: when <resource_dir>/server is missing or the host reports no
\* resource directory, and <parent of the executable's directory>/Resources/server
\* exists, find_server_dir returns that executable-relative path.
C7_ExeRelativeFallback ==
  (DirLocated
     /\ (IsNone(resourceDir) \/ ~Exists(fs, resourceDir[1] \o <<"/", "server">>))
     /\ IsSome(ExeCandidate) /\ Exists(fs, ExeCandidate[1])) =>
     dirRes = ExeCandidate

C7_Witness ==
  /\ DirLocated
  /\ resourceDir = Some(LibResources)
  /\ fs[LibServer] = "none"
  /\ exePath = Some(BundleExe)
  /\ dirRes = Some(BundleServer)

\* neither candidate server directory exists
NeitherCandidate ==
  /\ IsNone(resourceDir) \/ ~Exists(fs, resourceDir[1] \o <<"/", "server">>)
  /\ IsNone(ExeCandidate) \/ ~Exists(fs, ExeCandidate[1])

\* C8: when neither candidate directory exists, the find_server_dir step
\* returns None and leaves the filesystem, the slot, the lock, the processes
\* and the kill signals as they were.
C8_AbsentWithoutEffects ==
  [][(pc = "find_server_dir" /\ pc' # "find_server_dir" /\ NeitherCandidate) =>
       /\ dirRes' = None
       /\ UNCHANGED <<fs, slot, holders, procs, killSignals>>]_vars

C8_Witness ==
  /\ DirLocated
  /\ NeitherCandidate
  /\ IsSome(resourceDir)
  /\ IsSome(ExeCandidate)
  /\ dirRes = None
  /\ pc = "running"

\* C9: a kill_server call made while the slot holds a handle sends exactly
\* one kill signal, to that handle's process; a call made while the slot is
\* empty sends none and changes nothing but the thread's own position.
C9_TerminateKillsOnce ==
  [][(kpc = "locked" /\ kpc' = "idle") =>
       IF IsSome(slot)
       THEN /\ killSignals' = Append(killSignals, slot[1].pid)
            /\ \E p \in procs : p.pid = slot[1].pid
            /\ \A p \in procs' : p.pid = slot[1].pid => p.status # "running"
            /\ kills' = kills + 1
       ELSE /\ kills' = kills + 1
            /\ UNCHANGED <<env, pc, dirRes, whichRes, nodeRes, ret, slot, procs,
                           killSignals, calls, log, sleepLeft>>]_vars

C9_Witness ==
  /\ kills = 2
  /\ kpc = "idle"
  /\ IsSome(slot)
  /\ killSignals = <<slot[1].pid>>
  /\ \E p \in procs : p.pid = slot[1].pid /\ p.status = "killed"

\* C10: no thread holds the guard of the slot while it spawns the child or
\* sleeps through the settle delay.
C10_NoLockAcrossBlocking ==
  ~("setup" \in holders /\ pc \in {"spawn", "sleep"})

\* the number of error-level entries in the log
ErrorCount == Cardinality({i \in 1..Len(log) : log[i].level = "error"})

\* C11 as stated: when the bundle directory is missing entirely,
\* start_next_server is never called, nothing is stored, and the whole
\* startup writes exactly one error-level log entry.
C11_OneErrorEntry ==
  (DirLocated /\ NeitherCandidate) =>
     /\ ~Called(<<"start_next_server">>)
     /\ slot = None
     /\ ErrorCount = 1

\* C11 amended: when the bundle directory is missing entirely,
\* start_next_server is never called, nothing is stored and no process is
\* spawned, and the whole startup writes exactly two error-level log
\* entries: one by find_server_dir and one by the setup hook.
C11_TwoErrorEntries ==
  (DirLocated /\ NeitherCandidate) =>
     /\ pc \in {"running", "exited"}
     /\ ~Called(<<"start_next_server">>)
     /\ ~Called(<<"find_node_binary">>)
     /\ slot = None
     /\ ret = None
     /\ procs = {}
     /\ ErrorCount = 2
     /\ \E i \in 1..Len(log) : log[i] = Error("Could not find server directory")
     /\ \E i \in 1..Len(log) : log[i] = Error("Server directory not found!")

C11_Witness ==
  /\ ~debugBuild
  /\ pc = "exited"
  /\ fs[BundleServer] = "none"
  /\ fs[LibServer] = "none"
  /\ fs[UsrLocalNode] = "file"
  /\ dirRes = None
  /\ ErrorCount = 2

\* how often the main thread made the call c
CallCount(c) == Cardinality({i \in 1..Len(calls) : calls[i] = c})
SpawnCount == Cardinality({i \in 1..Len(calls) : calls[i][1] = "spawn"})

\* the failures of the startup
DirFailure == DirLocated /\ dirRes = None
EntryFailure ==
  /\ Called(<<"start_next_server">>)
  /\ fs[dirRes[1] \o <<"/", "server.js">>] = "none"
NodeFailure == Called(<<"find_node_binary">>) /\ pc # "find_node_binary" /\ nodeRes = None
SpawnFailure == Called(<<"spawn", 0>>)
Failure == DirFailure \/ EntryFailure \/ NodeFailure \/ SpawnFailure

\* nothing was attempted twice
NoRetry ==
  /\ CallCount(<<"find_server_dir">>) <= 1
  /\ CallCount(<<"start_next_server">>) <= 1
  /\ CallCount(<<"find_node_binary">>) <= 1
  /\ CallCount(<<"which">>) <= 1
  /\ SpawnCount <= 1

\* C12: after a discovery, missing-entry or spawn failure the result is
\* absent (nothing returned, nothing stored, no process), nothing is tried
\* again, and the setup hook goes on to return Ok(()) with the host running.
C12_FailuresNonFatal ==
  /\ [](Failure => (ret = None /\ slot = None /\ procs = {} /\ NoRetry))
  /\ (Failure ~> (pc \in {"running", "exited"}))

C12_Witness ==
  /\ pc = "running"
  /\ SpawnFailure
  /\ slot = None
  /\ ErrorCount = 1

\* C13: the slot is empty before start_next_server is called and after any
\* failure; a handle in the slot is the handle of the spawned process; and
\* outside the assignment of line 136 itself the slot holds a handle exactly
\* when a spawn has succeeded.
C13_SlotIffSpawned ==
  /\ ~Called(<<"start_next_server">>) => slot = None
  /\ Failure => slot = None
  /\ IsSome(slot) => \E p \in procs : slot = Some([pid |-> p.pid])
  /\ pc # "store" => (IsSome(slot) <=> procs # {})

C13_Witness ==
  /\ pc = "sleep"
  /\ kills = 1
  /\ killSignals = <<>>
  /\ \E p \in procs : slot = Some([pid |-> p.pid])

\* C14: in a debug build the setup hook queries nothing, spawns nothing,
\* leaves the slot empty and the guard untaken and never sleeps; a
\* production build goes on to find_server_dir.
C14_DebugSkipsSupervisor ==
  /\ debugBuild =>
       /\ pc \in {"init", "running", "exited"}
       /\ calls = <<>>
       /\ procs = {}
       /\ slot = None
       /\ "setup" \notin holders
       /\ sleepLeft = 0
       /\ \A i \in 1..Len(log) : log[i] # Info("Waiting for server to start...")
  /\ (~debugBuild /\ pc # "init") =>
       (pc = "find_server_dir" \/ Called(<<"find_server_dir">>))

C14_Witness ==
  /\ debugBuild
  /\ pc = "exited"
  /\ resourceDir = Some(BundleResources)
  /\ fs[BundleServer] = "dir"
  /\ fs[Join(BundleServer, "server.js")] = "file"
  /\ fs[UsrLocalNode] = "file"
  /\ log = <<Info("App setup starting..."), Info("Debug mode - using external dev server")>>

\* C15: a kill_server call leaves the slot as it was and reaps no process;
\* when the slot holds a handle the call sends a kill signal to that
\* handle's process whatever the state of the process, so every further
\* call sends another one.
C15_TerminateKeepsSlot ==
  [][(kpc = "locked" /\ kpc' = "idle") =>
       /\ slot' = slot
       /\ {p.pid : p \in procs'} = {p.pid : p \in procs}
       /\ \A p \in procs : p.status # "running" => p \in procs'
       /\ IsSome(slot) =>
            /\ Len(killSignals') = Len(killSignals) + 1
            /\ killSignals'[Len(killSignals')] = slot'[1].pid]_vars

C15_Witness ==
  /\ kills = 2
  /\ IsSome(slot)
  /\ killSignals = <<slot[1].pid, slot[1].pid>>
  /\ \E p \in procs : p.pid = slot[1].pid /\ p.status = "exited"

\* C16: a path returned by find_server_dir is a directory.
C16_ReturnedPathIsDirectory ==
  (DirLocated /\ IsSome(dirRes)) => fs[dirRes[1]] = "dir"

\* the startup stage a call of the main thread belongs to: 1 Bundle
\* Locator, 2 entry-file check, 3 Runtime Locator, 4 spawn, 5 store,
\* 6 settle delay
Stage(c) ==
  IF c[1] \in {"find_server_dir", "resource_dir", "current_exe"} THEN 1
  ELSE IF c[1] = "exists" /\ c[2] \in {BundleServer, LibServer} THEN 1
  ELSE IF c[1] = "start_next_server" THEN 2
  ELSE IF c[1] = "exists" /\ c[2] \in {BundleServer \o <<"/", "server.js">>,
                                       LibServer \o <<"/", "server.js">>} THEN 2
  ELSE IF c[1] \in {"find_node_binary", "which", "exists"} THEN 3
  ELSE IF c[1] = "spawn" THEN 4
  ELSE IF c[1] = "store" THEN 5
  ELSE 6

StagesDone == {Stage(calls[i]) : i \in 1..Len(calls)}

\* C17: in a production launch that finds the bundle directory the steps
\* come in the order Bundle Locator, entry-file check, Runtime Locator,
\* spawn, store, settle delay, none without the ones it depends on; setup
\* has returned only after the store and a sleep of 3 seconds, whether a
\* handle or nothing was stored; when the directory is not found nothing is
\* stored by the hook and there is no sleep.
C17_StartupOrder ==
  /\ (~debugBuild /\ IsSome(dirRes)) =>
       /\ \A i, j \in 1..Len(calls) : i < j => Stage(calls[i]) <= Stage(calls[j])
       /\ 6 \in StagesDone => 5 \in StagesDone
       /\ 5 \in StagesDone => 2 \in StagesDone
       /\ 4 \in StagesDone => 3 \in StagesDone
       /\ 3 \in StagesDone => 2 \in StagesDone
       /\ 2 \in StagesDone => 1 \in StagesDone
       /\ pc \in {"running", "exited"} =>
            /\ CallCount(<<"store">>) = 1
            /\ CallCount(<<"sleep", 3>>) = 1
            /\ calls[Len(calls)] = <<"sleep", 3>>
            /\ slot = ret
  /\ (DirLocated /\ IsNone(dirRes)) =>
       /\ StagesDone = {1}
       /\ sleepLeft = 0
       /\ pc \in {"running", "exited"}

C17_Witness ==
  /\ ~debugBuild
  /\ pc = "running"
  /\ IsSome(dirRes)
  /\ StagesDone = {1, 2, 3, 5, 6}
  /\ ret = None
  /\ slot = None
  /\ calls[Len(calls)] = <<"sleep", 3>>

\* C18: at most one thread holds the guard; the setup thread holds it from
\* before start_next_server is called until the sleep is over, so a
\* kill_server under the guard runs either before the spawn has begun or
\* after the handle was stored, and never sees an empty slot while a
\* spawned child exists.
C18_TerminateNeverInWindow ==
  /\ Cardinality(holders) <= 1
  /\ kpc = "locked" => holders = {"teardown"}
  /\ pc \in {"entry_check", "find_node_binary", "spawn", "store", "sleep"} =>
       holders = {"setup"}
  /\ kpc = "locked" =>
       \/ pc \in {"init", "find_server_dir", "lock"} /\ procs = {} /\ slot = None
       \/ pc \in {"running", "exited"} /\ (IsSome(slot) <=> procs # {})
  /\ (kpc = "locked" /\ IsNone(slot)) => procs = {}

C18_Witness ==
  /\ kpc = "locked"
  /\ pc = "lock"
  /\ IsSome(dirRes)
  /\ fs[Join(dirRes[1], "server.js")] = "file"
  /\ fs[UsrLocalNode] = "file"
  /\ slot = None

\* C19: at most one process is ever spawned and the slot holds at most one
\* handle; each locator, start_next_server and spawn() run at most once;
\* once a child exists no other is created, also after it was killed or
\* has exited.
C19_AtMostOneServer ==
  /\ [](/\ Cardinality(procs) <= 1
        /\ Len(slot) <= 1
        /\ NoRetry
        /\ CallCount(<<"store">>) <= 1)
  /\ [][procs # {} => procs' # {} /\ {p.pid : p \in procs'} = {p.pid : p \in procs}]_vars

C19_Witness ==
  /\ pc = "exited"
  /\ kills = 2
  /\ Cardinality(procs) = 1
  /\ SpawnCount = 1
  /\ \E p \in procs : p.status = "killed" /\ slot = Some([pid |-> p.pid])

====
